---- MODULE Spec2Model ----
(***************************************************************************)
(* Model of the arb-os link-and-postlink pipeline (src/src/link/mod.rs)    *)
(* and of the compile driver (src/src/main.rs).                            *)
(*                                                                         *)
(* The link module calls into striplabels, xformcode, optimize, compile    *)
(* and mavm, whose sources are not part of src/; the operators that stand  *)
(* for them follow the written specification and are marked as such.       *)
(***************************************************************************)
EXTENDS Integers, Sequences, FiniteSets, TLC

VARIABLES
    \* ---- link / postlink_compile pipeline ----
    progs_in,           \* link's progs_in: the translation units, in order
    globals,            \* link's globals: one codegen_print flag per GlobalVar
    link_mode,          \* test_mode as given to link
    post_mode,          \* test_mode as given to postlink_compile
    pc,                 \* position in link / postlink_compile
    ran,                \* the stages that have run, in the order they ran
    program,            \* link's result, postlink_compile's program (its code)
    jump_table,         \* the label table of fix_nonforward_labels
    code_2,             \* postlink_compile's code_2
    code_3,             \* ... code_3
    code_4,             \* ... code_4
    code_5,             \* ... code_5 as strip_labels returned it
    jump_table_final,   \* ... jump_table_final
    jump_table_value,   \* ... jump_table_value
    patched,            \* code_5 after hardcode_jump_table_into_register
    result,             \* what postlink_compile (or link) ended with
    \* ---- the tuple normalizer on one immediate ----
    tuple_in,           \* the code handed to fix_tuple_size (one instruction)
    tuple_out,          \* the code it returned
    tuple_pc,
    \* ---- SerializableTypeTree ----
    type_tree,          \* the TypeTree handed to from_type_tree
    inner,              \* SerializableTypeTree.inner
    type_tree_back,     \* the TypeTree into_type_tree returned
    tree_pc,
    \* ---- the compile driver (main, Args::Compile) ----
    filenames,          \* per input file, what the front end will answer
    compile_only,       \* compile.compile_only
    main_pc,            \* position in main
    file_idx,           \* the file the loop is at (from 1)
    compiled_progs,     \* the units pushed so far (the file each came from)
    calls,              \* the calls main has made, in order
    output,             \* what was written to the output
    main_ret,           \* what main returned (or that it panicked)
    printed,            \* the messages main printed with println!
    \* ---- LinkedProgram::to_output ----
    out_format,         \* the format argument: Option<&str>
    out_len,            \* self.code.len()
    out_pc,             \* position in to_output
    out_idx,            \* idx of the pretty loop (from 0)
    out_written,        \* what went through output, in order
    out_failed,         \* the writes that returned Err, in order
    out_ret             \* how to_output ended

pvars == <<progs_in, globals, link_mode, post_mode, pc, ran, program, jump_table,
           code_2, code_3, code_4, code_5, jump_table_final, jump_table_value,
           patched, result>>

tvars == <<tuple_in, tuple_out, tuple_pc>>

ttvars == <<type_tree, inner, type_tree_back, tree_pc>>

dvars == <<filenames, compile_only, main_pc, file_idx, compiled_progs, calls, output,
           main_ret, printed>>

ovars == <<out_format, out_len, out_pc, out_idx, out_written, out_failed, out_ret>>

vars == <<pvars, tvars, ttvars, dvars, ovars>>

-----------------------------------------------------------------------------
(* Bounds of the model.                                                    *)

MaxUnits == 2       \* translation units handed to link
MaxCode == 4        \* instructions of all units together
MaxLabel == 1       \* label identities a unit uses, before relocation
MaxGlobals == 2     \* global variables

-----------------------------------------------------------------------------
(* Values (mavm::Value).  Every value is a record [k, v] so that values of *)
(* different shapes can be compared.                                       *)

IntV(n) == [k |-> "int", v |-> n]
TupleV(s) == [k |-> "tuple", v |-> s]
LabelV(l) == [k |-> "label", v |-> l]
CodePtV(a) == [k |-> "codept", v |-> a]

\* Value::none(): the empty tuple.
NoneV == TupleV(<<>>)

\* Option<Value>::None, the immediate of an instruction that has none.
Absent == [k |-> "absent", v |-> 0]

IsTuple(val) == val.k = "tuple"
IsNone(val) == val = NoneV

-----------------------------------------------------------------------------
(* Instructions (mavm::Instruction).  kind is the Opcode variant: "avm"    *)
(* for Opcode::AVMOpcode, "virtual" for any other lowered-later opcode,    *)
(* "label" for a label marker (lab is then the label identity).  loc is    *)
(* debug_info.location: <<0, 0>> for DebugInfo::default(), <<u, i>> for    *)
(* instruction i of unit u.  print is attributes.codegen_print.            *)

NoLoc == <<0, 0>>

Insn(kind, name, lab, imm, loc) ==
    [kind |-> kind, name |-> name, lab |-> lab, imm |-> imm, loc |-> loc,
     print |-> FALSE]

\* Instruction::from_opcode_imm(Opcode::AVMOpcode(op), imm, DebugInfo::default())
FromOpcodeImm(name, imm) == Insn("avm", name, 0, imm, NoLoc)

\* Instruction::from_opcode(Opcode::AVMOpcode(op), DebugInfo::default())
FromOpcode(name) == Insn("avm", name, 0, Absent, NoLoc)

IsLabelMarker(insn) == insn.kind = "label"
IsLabelRef(insn) == insn.imm.k = "label"

-----------------------------------------------------------------------------
(* xformcode::TUPLE_SIZE, the native tuple width of the machine.           *)

TUPLE_SIZE == 8

\* xformcode::make_uninitialized_tuple(size): a container of `size` none
\* slots.
make_uninitialized_tuple(size) == TupleV([i \in 1..size |-> NoneV])

-----------------------------------------------------------------------------
(* link (src/src/link/mod.rs 307-402).                                     *)

\* let mut insns_so_far: usize = 3;
insns_so_far_init == 3

\* The first loop of link: int_offsets.push(insns_so_far);
\* insns_so_far += prog.code.len();
RECURSIVE OffsetsFrom(_, _, _)
OffsetsFrom(progs, i, insns_so_far) ==
    IF i > Len(progs) THEN <<>>
    ELSE <<insns_so_far>> \o
         OffsetsFrom(progs, i + 1, insns_so_far + Len(progs[i].code))

\* (a linker that left only the "2 insns of space" of the source comment)
int_offsets_two(progs) == OffsetsFrom(progs, 1, 2)
int_offsets(progs) == OffsetsFrom(progs, 1, insns_so_far_init)

\* Instruction relocation inside CompiledProgram::relocate: the label
\* identities of a unit (markers and references) are shifted by the unit's
\* starting offset; nothing else of the instruction changes.
RelocateInsn(insn, int_offset) ==
    IF IsLabelMarker(insn) THEN [insn EXCEPT !.lab = @ + int_offset]
    ELSE IF IsLabelRef(insn) THEN [insn EXCEPT !.imm = LabelV(@.v + int_offset)]
    ELSE insn

\* CompiledProgram::relocate(int_offset, func_offset, source_file_map): the
\* relocated unit and the function offset it ends with.
relocate(prog, int_offset, func_offset) ==
    [prog |-> [code |-> [j \in 1..Len(prog.code) |->
                            RelocateInsn(prog.code[j], int_offset)]],
     func_offset |-> func_offset]

\* The second loop of link: every unit relocated by its own offset, the
\* function offset carried from one unit to the next.
RECURSIVE RelocateFrom(_, _, _, _)
RelocateFrom(progs, offsets, i, func_offset) ==
    IF i > Len(progs) THEN <<>>
    ELSE LET r == relocate(progs[i], offsets[i], func_offset)
         IN  <<r.prog>> \o RelocateFrom(progs, offsets, i + 1, r.func_offset + 1)

relocated_progs(progs) == RelocateFrom(progs, int_offsets(progs), 1, 0)

\* The prologue of link, by mode.
TestPrologue(gs) ==
    << FromOpcodeImm("Noop", NoneV),
       FromOpcodeImm("Noop", make_uninitialized_tuple(Len(gs))),
       FromOpcode("Rset") >>

NormalPrologue(gs) ==
    << FromOpcode("Rpush"),
       FromOpcodeImm("Noop", NoneV),
       FromOpcodeImm("Rset", make_uninitialized_tuple(Len(gs))) >>

Prologue(gs, test_mode) ==
    IF test_mode THEN TestPrologue(gs) ELSE NormalPrologue(gs)

\* if globals.iter().any(|x| x.debug_info.attributes.codegen_print)
\*     { for curr in &mut linked_code { curr...codegen_print = true; } }
MarkPrint(code, gs) ==
    IF \E g \in 1..Len(gs) : gs[g]
    THEN [j \in 1..Len(code) |-> [code[j] EXCEPT !.print = TRUE]]
    ELSE code

\* for mut rel_prog in relocated_progs { linked_code.append(&mut rel_prog.code) }
RECURSIVE AppendAll(_, _, _)
AppendAll(linked_code, rel, i) ==
    IF i > Len(rel) THEN linked_code
    ELSE AppendAll(linked_code \o rel[i].code, rel, i + 1)

\* progs[0] of an empty vector is an index out of range.
LinkPanics(progs) == Len(progs) = 0

\* The CompiledProgram link returns.
link(progs, gs, test_mode) ==
    [code |-> AppendAll(MarkPrint(Prologue(gs, test_mode), gs),
                        relocated_progs(progs), 1),
     globals |-> gs]

-----------------------------------------------------------------------------
(* striplabels: the label resolver.                                        *)

\* The number of instructions of code[1..n] that are not label markers: the
\* address the instruction after them has once the markers are removed.
RECURSIVE AddressAfter(_, _)
AddressAfter(code, n) ==
    IF n = 0 THEN 0
    ELSE AddressAfter(code, n - 1) + (IF IsLabelMarker(code[n]) THEN 0 ELSE 1)

\* The positions of code[1..n] that define label l.
DefsBefore(code, n, l) == {j \in 1..n : IsLabelMarker(code[j]) /\ code[j].lab = l}

MaxOf(S) == CHOOSE x \in S : \A y \in S : y <= x

\* The address recorded for l by the definitions in code[1..n] (the map is
\* overwritten by a later definition of the same identity).
LabelAddress(code, n, l) == AddressAfter(code, MaxOf(DefsBefore(code, n, l)))

IndexOf(seq, x) == CHOOSE j \in 1..Len(seq) : seq[j] = x
InSeq(seq, x) == \E j \in 1..Len(seq) : seq[j] = x

\* Phase A, one scan of the code: a reference to a label already defined is
\* replaced by its address; a reference to a label not seen so far stays
\* symbolic and its identity joins the table, once, in order of discovery.
RECURSIVE ScanNonforward(_, _, _, _)
ScanNonforward(code_in, i, code_out, table) ==
    IF i > Len(code_in) THEN [code |-> code_out, table |-> table]
    ELSE LET insn == code_in[i]
         IN  IF IsLabelRef(insn)
             THEN IF DefsBefore(code_in, i - 1, insn.imm.v) # {}
                  THEN ScanNonforward(code_in, i + 1,
                           Append(code_out,
                               [insn EXCEPT !.imm =
                                   CodePtV(LabelAddress(code_in, i - 1, insn.imm.v))]),
                           table)
                  ELSE ScanNonforward(code_in, i + 1, Append(code_out, insn),
                           IF InSeq(table, insn.imm.v) THEN table
                           ELSE Append(table, insn.imm.v))
             ELSE ScanNonforward(code_in, i + 1, Append(code_out, insn), table)

\* striplabels::fix_nonforward_labels(code, jump_table_index_in_globals)
fix_nonforward_labels(code_in, jump_table_index_in_globals) ==
    ScanNonforward(code_in, 1, <<>>, <<>>)

\* The error strip_labels fails with (a CompileError).
UndefinedLabel(loc) == [err |-> "UndefinedLabel", op |-> "", loc |-> loc]

\* Phase B, the rewrite of one instruction: a symbolic reference becomes the
\* index of its identity in the table, or its address when it is not in the
\* table.
StripInsn(code_in, table, insn) ==
    IF ~IsLabelRef(insn) THEN insn
    ELSE IF InSeq(table, insn.imm.v)
         THEN [insn EXCEPT !.imm = IntV(IndexOf(table, insn.imm.v) - 1)]
         ELSE [insn EXCEPT !.imm =
                   CodePtV(LabelAddress(code_in, Len(code_in), insn.imm.v))]

Defined(code, l) == DefsBefore(code, Len(code), l) # {}

\* The instructions of code_in that still refer to a label defined nowhere.
DanglingRefs(code_in) ==
    {j \in 1..Len(code_in) : IsLabelRef(code_in[j]) /\ ~Defined(code_in, code_in[j].imm.v)}

\* The entries of the table whose identity is defined nowhere.
DanglingEntries(code_in, table) ==
    {j \in 1..Len(table) : ~Defined(code_in, table[j])}

MinOf(S) == CHOOSE x \in S : \A y \in S : x <= y

\* The code without its label markers.
RECURSIVE DropMarkers(_, _, _)
DropMarkers(code_in, table, i) ==
    IF i > Len(code_in) THEN <<>>
    ELSE IF IsLabelMarker(code_in[i]) THEN DropMarkers(code_in, table, i + 1)
    ELSE <<StripInsn(code_in, table, code_in[i])>> \o DropMarkers(code_in, table, i + 1)

\* striplabels::strip_labels(code, jump_table): Ok((code, jump_table_final))
\* or Err(UndefinedLabel).
strip_labels(code_in, table) ==
    IF DanglingRefs(code_in) # {}
    THEN [ok |-> FALSE,
          error |-> UndefinedLabel(code_in[MinOf(DanglingRefs(code_in))].loc),
          code |-> <<>>, table |-> <<>>]
    ELSE IF DanglingEntries(code_in, table) # {}
    THEN [ok |-> FALSE, error |-> UndefinedLabel(NoLoc), code |-> <<>>, table |-> <<>>]
    ELSE [ok |-> TRUE, error |-> UndefinedLabel(NoLoc),
          code |-> DropMarkers(code_in, table, 1),
          table |-> [j \in 1..Len(table) |->
                        CodePtV(LabelAddress(code_in, Len(code_in), table[j]))]]

-----------------------------------------------------------------------------
(* xformcode: the tuple normalizer.                                        *)

\* Group g (of TUPLE_SIZE contiguous, roughly equal groups) of a sequence of
\* n > TUPLE_SIZE elements: the first n % TUPLE_SIZE groups hold one more.
GroupSize(n, g) == (n \div TUPLE_SIZE) + (IF g <= n % TUPLE_SIZE THEN 1 ELSE 0)

RECURSIVE GroupStart(_, _)
GroupStart(n, g) == IF g = 1 THEN 1 ELSE GroupStart(n, g - 1) + GroupSize(n, g - 1)

Group(s, g) == SubSeq(s, GroupStart(Len(s), g), GroupStart(Len(s), g) + GroupSize(Len(s), g) - 1)

\* The normal form of a value: a tuple no wider than TUPLE_SIZE keeps its
\* shape (its elements are normalized); a wider one becomes a tuple of
\* TUPLE_SIZE groups, each normalized in turn.
RECURSIVE FixValue(_)
FixValue(val) ==
    IF ~IsTuple(val) THEN val
    ELSE IF Len(val.v) <= TUPLE_SIZE
         THEN TupleV([j \in 1..Len(val.v) |-> FixValue(val.v[j])])
         ELSE TupleV([g \in 1..TUPLE_SIZE |-> FixValue(TupleV(Group(val.v, g)))])

\* xformcode::fix_tuple_size(code, num_globals), when it succeeds: every
\* immediate normalized.
fix_tuple_size(code_in, num_globals) ==
    [j \in 1..Len(code_in) |-> [code_in[j] EXCEPT !.imm = FixValue(@)]]

\* The error fix_tuple_size fails with.
UnrepresentableValueShape == [err |-> "UnrepresentableValueShape", op |-> "", loc |-> NoLoc]

\* xformcode::jump_table_to_value(jump_table): one tuple-encoded constant.
jump_table_to_value(table) == FixValue(TupleV(table))

\* The leaves of a value, left to right.
RECURSIVE Flatten(_)
RECURSIVE FlattenSeq(_, _)
Flatten(val) == IF IsTuple(val) THEN FlattenSeq(val.v, 1) ELSE <<val>>
FlattenSeq(s, j) == IF j > Len(s) THEN <<>> ELSE Flatten(s[j]) \o FlattenSeq(s, j + 1)

\* The widest tuple node of a value, at any depth.
RECURSIVE MaxArity(_)
MaxArity(val) ==
    IF ~IsTuple(val) THEN 0
    ELSE LET arities == {MaxArity(val.v[j]) : j \in 1..Len(val.v)} \cup {Len(val.v)}
         IN  MaxOf(arities)

-----------------------------------------------------------------------------
(* optimize: the peephole optimizer.                                       *)

IsPush(insn) == insn.kind = "avm" /\ insn.name = "Noop" /\ insn.imm # Absent
IsPurePop(insn) == insn.kind = "avm" /\ insn.name = "Pop" /\ insn.imm = Absent
IsPureNoop(insn) == insn.kind = "avm" /\ insn.name = "Noop" /\ insn.imm = Absent

\* The rewriting of the end of the output so far: a no-op is dropped, and so
\* is a push immediately followed by its own pop.
RECURSIVE PeepholeSuffix(_)
PeepholeSuffix(out) ==
    LET n == Len(out)
    IN  IF n >= 1 /\ IsPureNoop(out[n]) THEN PeepholeSuffix(SubSeq(out, 1, n - 1))
        ELSE IF n >= 2 /\ IsPush(out[n - 1]) /\ IsPurePop(out[n])
             THEN PeepholeSuffix(SubSeq(out, 1, n - 2))
             ELSE out

RECURSIVE PeepholeFrom(_, _, _)
PeepholeFrom(code_in, i, out) ==
    IF i > Len(code_in) THEN out
    ELSE PeepholeFrom(code_in, i + 1, PeepholeSuffix(Append(out, code_in[i])))

\* optimize::peephole(code)
peephole(code_in) == PeepholeFrom(code_in, 1, <<>>)

-----------------------------------------------------------------------------
(* postlink_compile (src/src/link/mod.rs 182-303).                         *)

\* Value::replace_last_none(val): none becomes val; in a tuple the last
\* element is replaced in the same way.
RECURSIVE replace_last_none(_, _)
replace_last_none(old, val) ==
    IF IsNone(old) THEN val
    ELSE IF IsTuple(old)
         THEN TupleV([old.v EXCEPT ![Len(old.v)] = replace_last_none(@, val)])
         ELSE old

\* let offset = if test_mode { 1 } else { 2 };   (an index from 0)
PatchOffsetSwapped(test_mode) == IF test_mode THEN 2 ELSE 1
PatchOffset(test_mode) == IF test_mode THEN 1 ELSE 2

\* code[offset] out of range, or .immediate.unwrap() of an absent immediate.
HardcodePanics(code, test_mode) ==
    \/ Len(code) <= PatchOffset(test_mode)
    \/ code[PatchOffset(test_mode) + 1].imm = Absent

\* (a patch that builds the instruction anew with DebugInfo::default())
hardcode_jump_table_default_debug(code, jt_value, test_mode) ==
    [code EXCEPT ![PatchOffset(test_mode) + 1] =
        FromOpcodeImm(@.name, replace_last_none(@.imm, jt_value))]

\* hardcode_jump_table_into_register(code, jump_table, test_mode): the code
\* with the immediate of code[offset] patched, opcode and debug info kept.
hardcode_jump_table_into_register(code, jt_value, test_mode) ==
    [code EXCEPT ![PatchOffset(test_mode) + 1] =
        [@ EXCEPT !.imm = replace_last_none(@, jt_value)]]

\* The instructions of code whose opcode is not Opcode::AVMOpcode.
NonAvm(code) == {j \in 1..Len(code) : code[j].kind # "avm"}

\* The CompileError of the final conversion, for the first such instruction.
PostlinkError(insn) == [err |-> "Postlink error", op |-> insn.name, loc |-> insn.loc]

\* Instruction::new(inner, insn.immediate, insn.debug_info): an instruction
\* over AVMOpcode.
AvmInsn(insn) == [name |-> insn.name, imm |-> insn.imm, loc |-> insn.loc, print |-> insn.print]

\* (a conversion that drops what is not a concrete opcode instead of failing)
RECURSIVE AvmOnly(_, _)
AvmOnly(code, j) ==
    IF j > Len(code) THEN <<>>
    ELSE (IF code[j].kind = "avm" THEN <<AvmInsn(code[j])>> ELSE <<>>) \o AvmOnly(code, j + 1)

code_final_filtered(code) ==
    [ok |-> TRUE, error |-> PostlinkError(FromOpcode("")), code |-> AvmOnly(code, 1)]

\* let code_final = code_5.into_iter().map(...).collect::<Result<Vec<_>, _>>()
code_final(code) ==
    IF NonAvm(code) # {}
    THEN [ok |-> FALSE, error |-> PostlinkError(code[MinOf(NonAvm(code))]), code |-> <<>>]
    ELSE [ok |-> TRUE, error |-> PostlinkError(FromOpcode("")),
          code |-> [j \in 1..Len(code) |-> AvmInsn(code[j])]]

\* program.globals.len() - 1 on usize: below zero it wraps (wrapped) unless
\* the build checks overflow, and then it panics.
jump_table_index(gs) ==
    IF Len(gs) = 0 THEN [wrapped |-> TRUE, v |-> 0] ELSE [wrapped |-> FALSE, v |-> Len(gs) - 1]

\* What init_constant_table(...) and .get("ArbosVersionNumber") can give:
\* no table (the file cannot be read), a table without the key, a version.
ConstantTables ==
    {[table |-> FALSE, key |-> FALSE, version |-> 0],
     [table |-> TRUE, key |-> FALSE, version |-> 0],
     [table |-> TRUE, key |-> TRUE, version |-> 1]}

\* What a run of link or postlink_compile ends with.
NoProgram == [arbos_version |-> 0, code |-> <<>>, static_val |-> NoneV, globals |-> <<>>]
NoResult == [kind |-> "none", err |-> "", op |-> "", loc |-> NoLoc, prog |-> NoProgram]
ErrResult(e) == [NoResult EXCEPT !.kind = "err", !.err = e.err, !.op = e.op, !.loc = e.loc]
PanicResult(msg) == [NoResult EXCEPT !.kind = "panic", !.err = msg]
OkResult(prog) == [NoResult EXCEPT !.kind = "ok", !.prog = prog]

\* Ok(LinkedProgram { arbos_version, code: code_final, static_val:
\* Value::none(), globals: program.globals.clone(), ... })
LinkedProgram(version, code, gs) ==
    [arbos_version |-> version, code |-> code, static_val |-> NoneV, globals |-> gs]

\* let (code_2, jump_table) = striplabels::fix_nonforward_labels(
\*     &program.code, program.globals.len() - 1);
postlink_fix_nonforward_labels(prog) ==
    fix_nonforward_labels(prog.code, jump_table_index(prog.globals))

\* (strip_labels handed a fresh table instead of &jump_table)
postlink_strip_labels_no_table(code, table) == strip_labels(code, <<>>)

\* (the stage left out: the code goes on as peephole returned it)
postlink_strip_labels_skipped(code, table) ==
    [ok |-> TRUE, error |-> UndefinedLabel(NoLoc), code |-> code, table |-> <<>>]

\* striplabels::strip_labels(code_4, &jump_table)
postlink_strip_labels(code, table) == strip_labels(code, table)

\* (the stage left out: code_3 is code_2)
postlink_fix_tuple_size_skipped(code, num_globals) == code

\* xformcode::fix_tuple_size(&code_2, program.globals.len()), when Ok
postlink_fix_tuple_size(code, num_globals) == fix_tuple_size(code, num_globals)

\* The order of the calls in postlink_compile.
StageAfterStripFirst(stage) ==
    CASE stage = "link" -> "fix_nonforward_labels"
      [] stage = "fix_nonforward_labels" -> "fix_tuple_size"
      [] stage = "fix_tuple_size" -> "strip_labels"
      [] stage = "strip_labels" -> "peephole"
      [] stage = "peephole" -> "hardcode"
      [] stage = "hardcode" -> "finish"
      [] OTHER -> "done"

StageAfter(stage) ==
    CASE stage = "link" -> "fix_nonforward_labels"
      [] stage = "fix_nonforward_labels" -> "fix_tuple_size"
      [] stage = "fix_tuple_size" -> "peephole"
      [] stage = "peephole" -> "strip_labels"
      [] stage = "strip_labels" -> "hardcode"
      [] stage = "hardcode" -> "finish"
      [] OTHER -> "done"

-----------------------------------------------------------------------------
(* The inputs: translation units over a small instruction set.             *)

Shapes ==
    {Insn("label", "Label", l, Absent, NoLoc) : l \in 1..MaxLabel}
    \cup {Insn("avm", "Jump", 0, LabelV(l), NoLoc) : l \in 1..MaxLabel}
    \cup {Insn("avm", "Noop", 0, IntV(7), NoLoc),
          Insn("avm", "Pop", 0, Absent, NoLoc),
          Insn("virtual", "FuncCall", 0, Absent, NoLoc)}

UnitCodes == UNION {[1..n -> Shapes] : n \in 0..MaxCode}

RECURSIVE TotalLen(_, _)
TotalLen(cs, k) == IF k = 0 THEN 0 ELSE TotalLen(cs, k - 1) + Len(cs[k])

\* Unit u with the debug location of each instruction set.
Unit(shapes, u) == [code |-> [i \in 1..Len(shapes) |-> [shapes[i] EXCEPT !.loc = <<u, i>>]]]

GlobalLists == UNION {[1..n -> BOOLEAN] : n \in 0..MaxGlobals}

PipeInit ==
    /\ \E k \in 0..MaxUnits : \E cs \in [1..k -> UnitCodes] :
           /\ TotalLen(cs, k) <= MaxCode
           /\ progs_in = [u \in 1..k |-> Unit(cs[u], u)]
    /\ globals \in GlobalLists
    /\ link_mode \in BOOLEAN
    /\ post_mode \in BOOLEAN
    /\ pc = "link"
    /\ ran = <<>>
    /\ program = [code |-> <<>>, globals |-> <<>>]
    /\ jump_table = <<>>
    /\ code_2 = <<>>
    /\ code_3 = <<>>
    /\ code_4 = <<>>
    /\ code_5 = <<>>
    /\ jump_table_final = <<>>
    /\ jump_table_value = NoneV
    /\ patched = <<>>
    /\ result = NoResult

\* What no step of link or postlink_compile changes: its inputs, and the
\* state of the other components.
inputs == <<progs_in, globals, link_mode, post_mode, tvars, ttvars, dvars, ovars>>

\* A stage ends the run: the caller gets r (or the process panics with r).
End(r) ==
    /\ result' = r
    /\ pc' = "done"

\* link(progs_in, globals, test_mode)
Link ==
    /\ pc = "link"
    /\ ran' = Append(ran, "link")
    /\ IF LinkPanics(progs_in)
       THEN /\ End(PanicResult("index out of bounds"))
            /\ UNCHANGED program
       ELSE /\ program' = link(progs_in, globals, link_mode)
            /\ pc' = StageAfter("link")
            /\ UNCHANGED result
    /\ UNCHANGED <<inputs, jump_table, code_2, code_3, code_4, code_5,
                   jump_table_final, jump_table_value, patched>>

\* let (code_2, jump_table) = striplabels::fix_nonforward_labels(
\*     &program.code, program.globals.len() - 1);
FixNonforwardLabels ==
    /\ pc = "fix_nonforward_labels"
    /\ ran' = Append(ran, "fix_nonforward_labels")
    /\ \E overflow_checks \in BOOLEAN :
          IF jump_table_index(program.globals).wrapped /\ overflow_checks
          THEN /\ End(PanicResult("attempt to subtract with overflow"))
               /\ UNCHANGED <<code_2, jump_table>>
          ELSE LET r == postlink_fix_nonforward_labels(program)
               IN  /\ code_2' = r.code
                   /\ jump_table' = r.table
                   /\ pc' = StageAfter("fix_nonforward_labels")
                   /\ UNCHANGED result
    /\ UNCHANGED <<inputs, program, code_3, code_4, code_5, jump_table_final,
                   jump_table_value, patched>>

\* let code_3 = xformcode::fix_tuple_size(&code_2, program.globals.len())?;
FixTupleSize ==
    /\ pc = "fix_tuple_size"
    /\ ran' = Append(ran, "fix_tuple_size")
    /\ \/ /\ code_3' = postlink_fix_tuple_size(code_2, Len(program.globals))
          /\ pc' = StageAfter("fix_tuple_size")
          /\ UNCHANGED result
       \/ /\ End(ErrResult(UnrepresentableValueShape))
          /\ UNCHANGED code_3
    /\ UNCHANGED <<inputs, program, jump_table, code_2, code_4, code_5,
                   jump_table_final, jump_table_value, patched>>

\* let code_4 = optimize::peephole(&code_3);
Peephole ==
    /\ pc = "peephole"
    /\ ran' = Append(ran, "peephole")
    /\ code_4' = peephole(code_3)
    /\ pc' = StageAfter("peephole")
    /\ UNCHANGED <<inputs, program, jump_table, code_2, code_3, code_5,
                   jump_table_final, jump_table_value, patched, result>>

\* let (mut code_5, jump_table_final) = striplabels::strip_labels(code_4, &jump_table)?;
\* let jump_table_value = xformcode::jump_table_to_value(jump_table_final);
StripLabels ==
    /\ pc = "strip_labels"
    /\ ran' = Append(ran, "strip_labels")
    /\ LET r == postlink_strip_labels(code_4, jump_table)
       IN  IF r.ok
           THEN /\ code_5' = r.code
                /\ jump_table_final' = r.table
                /\ jump_table_value' = jump_table_to_value(r.table)
                /\ pc' = StageAfter("strip_labels")
                /\ UNCHANGED result
           ELSE /\ End(ErrResult(r.error))
                /\ UNCHANGED <<code_5, jump_table_final, jump_table_value>>
    /\ UNCHANGED <<inputs, program, jump_table, code_2, code_3, code_4, patched>>

\* hardcode_jump_table_into_register(&mut code_5, &jump_table_value, test_mode);
Hardcode ==
    /\ pc = "hardcode"
    /\ ran' = Append(ran, "hardcode")
    /\ IF HardcodePanics(code_5, post_mode)
       THEN /\ End(PanicResult("hardcode_jump_table_into_register"))
            /\ UNCHANGED patched
       ELSE /\ patched' = hardcode_jump_table_into_register(code_5, jump_table_value,
                                                            post_mode)
            /\ pc' = StageAfter("hardcode")
            /\ UNCHANGED result
    /\ UNCHANGED <<inputs, program, jump_table, code_2, code_3, code_4, code_5,
                   jump_table_final, jump_table_value>>

\* The conversion to AVM instructions and the construction of the
\* LinkedProgram, with the two unwraps of the version lookup.
Finish ==
    /\ pc = "finish"
    /\ ran' = Append(ran, "finish")
    /\ LET r == code_final(patched)
       IN  IF ~r.ok
           THEN End(ErrResult(r.error))
           ELSE \E c \in ConstantTables :
                   IF ~c.table \/ ~c.key
                   THEN End(PanicResult("unwrap of the version constant"))
                   ELSE End(OkResult(LinkedProgram(c.version, r.code, program.globals)))
    /\ UNCHANGED <<inputs, program, jump_table, code_2, code_3, code_4, code_5,
                   jump_table_final, jump_table_value, patched>>

PipeNext ==
    \/ Link
    \/ FixNonforwardLabels
    \/ FixTupleSize
    \/ Peephole
    \/ StripLabels
    \/ Hardcode
    \/ Finish

PipeIdle ==
    /\ progs_in = <<>>
    /\ globals = <<>>
    /\ link_mode = FALSE
    /\ post_mode = FALSE
    /\ pc = "idle"
    /\ ran = <<>>
    /\ program = [code |-> <<>>, globals |-> <<>>]
    /\ jump_table = <<>>
    /\ code_2 = <<>>
    /\ code_3 = <<>>
    /\ code_4 = <<>>
    /\ code_5 = <<>>
    /\ jump_table_final = <<>>
    /\ jump_table_value = NoneV
    /\ patched = <<>>
    /\ result = NoResult

-----------------------------------------------------------------------------
(* The tuple normalizer applied to one immediate.                          *)

MaxWide == 66       \* arity of the widest tuple handed to the normalizer

\* A tuple of n elements: the integers 1..n, the first one replaced by a
\* tuple of the integers 101..100+m when m > 0.
WideTuple(n, m) ==
    TupleV([j \in 1..n |->
        IF j = 1 /\ m > 0 THEN TupleV([i \in 1..m |-> IntV(100 + i)]) ELSE IntV(j)])

TupleIdle ==
    /\ tuple_in = <<>>
    /\ tuple_out = <<>>
    /\ tuple_pc = "idle"

TupleInit ==
    /\ \E n \in 0..MaxWide : \E m \in 0..MaxWide :
           tuple_in = <<FromOpcodeImm("Noop", WideTuple(n, m))>>
    /\ tuple_out = <<>>
    /\ tuple_pc = "fix_tuple_size"

\* let code_3 = xformcode::fix_tuple_size(&code_2, program.globals.len())?;
NormalizeImmediate ==
    /\ tuple_pc = "fix_tuple_size"
    /\ \/ /\ tuple_out' = postlink_fix_tuple_size(tuple_in, 0)
          /\ tuple_pc' = "done"
       \/ /\ tuple_pc' = "UnrepresentableValueShape"
          /\ UNCHANGED tuple_out
    /\ UNCHANGED <<tuple_in, pvars, ttvars, dvars, ovars>>

-----------------------------------------------------------------------------
(* SerializableTypeTree (src/src/link/mod.rs 30-56).  A String is a        *)
(* sequence of characters.                                                 *)

MaxSegLen == 2      \* characters of a path segment
MaxPath == 2        \* segments of a module path
MaxEntries == 2     \* entries of a type tree
MaxId == 12         \* the larger of the two numeric ids

Chars == {"a", ",", " "}

\* The separator ", " of from_type_tree and of split.
Separator == <<",", " ">>

DigitChars == <<"0", "1", "2", "3", "4", "5", "6", "7", "8", "9">>

\* The Display of a usize: its decimal digits.
RECURSIVE Decimal(_)
Decimal(n) ==
    IF n < 10 THEN <<DigitChars[n + 1]>>
    ELSE Decimal(n \div 10) \o <<DigitChars[(n % 10) + 1]>>

\* compile::comma_list(&path): the segments joined by ", ".
RECURSIVE comma_list(_)
comma_list(path) ==
    IF Len(path) = 0 THEN <<>>
    ELSE IF Len(path) = 1 THEN path[1]
    ELSE path[1] \o Separator \o comma_list(Tail(path))

\* format!("{}, {}", comma_list(&path), id)
KeyString(key) == comma_list(key.path) \o Separator \o Decimal(key.id)

\* str::split(", "): the pieces between the matches of the separator, found
\* from the left without overlap; cur is the piece being read.
RECURSIVE SplitFrom(_, _, _)
SplitFrom(str, i, cur) ==
    IF i > Len(str) THEN <<cur>>
    ELSE IF i < Len(str) /\ SubSeq(str, i, i + 1) = Separator
         THEN <<cur>> \o SplitFrom(str, i + 2, <<>>)
         ELSE SplitFrom(str, i + 1, Append(cur, str[i]))

Split(str) == SplitFrom(str, 1, <<>>)

IsDigit(c) == \E d \in 1..10 : DigitChars[d] = c
DigitValue(c) == (CHOOSE d \in 1..10 : DigitChars[d] = c) - 1

\* str::parse::<usize>() on a string of digits (an optional "+" first).
Unsigned(str) == IF Len(str) > 0 /\ str[1] = "+" THEN Tail(str) ELSE str
Parses(str) ==
    Len(Unsigned(str)) > 0 /\ \A j \in 1..Len(Unsigned(str)) : IsDigit(Unsigned(str)[j])

RECURSIVE DigitsValue(_, _)
DigitsValue(ds, n) == IF n = 0 THEN 0 ELSE 10 * DigitsValue(ds, n - 1) + DigitValue(ds[n])

ParseUsize(str) == DigitsValue(Unsigned(str), Len(Unsigned(str)))

\* The key into_type_tree reads from a string: the last piece is the id, the
\* pieces before it are the path.
KeyOf(str) ==
    LET x == Split(str)
    IN  [path |-> SubSeq(x, 1, Len(x) - 1), id |-> ParseUsize(x[Len(x)])]

\* into_type_tree panics ("failed to parse") on a string whose last piece is
\* no number.
IntoPanics(map) == \E str \in DOMAIN map : ~Parses(Split(str)[Len(Split(str))])

\* The maps from_type_tree can build: one entry per key string; where two
\* keys of the tree give the same string, the entry inserted last stays, and
\* the HashMap's iteration order decides which one that is.
from_type_tree(tree) ==
    {map \in [{KeyString(key) : key \in DOMAIN tree} -> {tree[key] : key \in DOMAIN tree}] :
        \A str \in DOMAIN map : \E key \in DOMAIN tree :
            KeyString(key) = str /\ map[str] = tree[key]}

\* into_type_tree, when it does not panic.
into_type_tree(map) ==
    [key \in {KeyOf(str) : str \in DOMAIN map} |->
        map[CHOOSE str \in DOMAIN map : KeyOf(str) = key]]

\* The inputs: the strings, paths, keys and trees within the bounds.
Segments == UNION {[1..n -> Chars] : n \in 0..MaxSegLen}
Paths == UNION {[1..n -> Segments] : n \in 0..MaxPath}
Keys == {[path |-> path, id |-> id] : path \in Paths, id \in {0, MaxId}}
Types == {"uint", "bool"}

RECURSIVE KeySets(_)
KeySets(n) ==
    IF n = 0 THEN {{}}
    ELSE LET smaller == KeySets(n - 1)
         IN  smaller \cup {S \cup {key} : S \in smaller, key \in Keys}

EmptyTree == [key \in {} |-> "uint"]

TreeIdle ==
    /\ type_tree = EmptyTree
    /\ inner = EmptyTree
    /\ type_tree_back = EmptyTree
    /\ tree_pc = "idle"

TreeInit ==
    /\ \E D \in KeySets(MaxEntries) : type_tree \in [D -> Types]
    /\ inner = EmptyTree
    /\ type_tree_back = EmptyTree
    /\ tree_pc = "from_type_tree"

\* SerializableTypeTree::from_type_tree(tree)
FromTypeTree ==
    /\ tree_pc = "from_type_tree"
    /\ inner' \in from_type_tree(type_tree)
    /\ tree_pc' = "into_type_tree"
    /\ UNCHANGED <<type_tree, type_tree_back, pvars, tvars, dvars, ovars>>

\* SerializableTypeTree::into_type_tree(self)
IntoTypeTree ==
    /\ tree_pc = "into_type_tree"
    /\ IF IntoPanics(inner)
       THEN /\ tree_pc' = "panic"
            /\ UNCHANGED type_tree_back
       ELSE /\ type_tree_back' = into_type_tree(inner)
            /\ tree_pc' = "done"
    /\ UNCHANGED <<type_tree, inner, pvars, tvars, dvars, ovars>>

TreeNext ==
    \/ FromTypeTree
    \/ IntoTypeTree

-----------------------------------------------------------------------------
(* The compile driver: main, Args::Compile (src/src/main.rs 96-174).       *)
(* output holds what was written through the handle get_output returned;   *)
(* the messages main prints with println! are not recorded.                *)

MaxFiles == 3           \* input files on the command line
MaxUnitsPerFile == 2    \* translation units one file compiles to

\* What compile_from_file answers for a file: Err(e), or Ok with some units.
FrontEndAnswers ==
    {[ok |-> FALSE, units |-> 0]} \cup {[ok |-> TRUE, units |-> k] : k \in 0..MaxUnitsPerFile}

\* What link and postlink_compile can end with, as their caller sees it.
Outcomes == {"Ok", "Err", "Panic"}

Call(fn, arg, outcome) == [fn |-> fn, arg |-> arg, outcome |-> outcome]

NoReturn == [kind |-> "none", stage |-> "", file |-> 0]
ReturnOk == [kind |-> "ok", stage |-> "", file |-> 0]
ReturnErr(stage, file) == [kind |-> "err", stage |-> stage, file |-> file]
Panicked(stage) == [kind |-> "panic", stage |-> stage, file |-> 0]

MainIdle ==
    /\ filenames = <<>>
    /\ compile_only = FALSE
    /\ main_pc = "idle"
    /\ file_idx = 1
    /\ compiled_progs = <<>>
    /\ calls = <<>>
    /\ output = <<>>
    /\ main_ret = NoReturn
    /\ printed = <<>>

MainInit ==
    /\ filenames \in UNION {[1..n -> FrontEndAnswers] : n \in 0..MaxFiles}
    /\ compile_only \in BOOLEAN
    /\ main_pc = "get_output"
    /\ file_idx = 1
    /\ compiled_progs = <<>>
    /\ calls = <<>>
    /\ output = <<>>
    /\ main_ret = NoReturn
    /\ printed = <<>>

\* println!("Compilation error: ...") and println!("Linking error: {}", e)
Printed(msg, file) == [msg |-> msg, file |-> file]

\* main ends: it returns r, or the process panics with r.
Return(r) ==
    /\ main_ret' = r
    /\ main_pc' = "done"

\* (a driver that skips a file that does not compile and goes on)
OnCompileContinue(answer) == "compile_loop"

\* match compile_from_file(...) { Ok(..) => go on, Err(e) => return Err(e) }
OnCompile(answer) == IF answer.ok THEN "compile_loop" ELSE "return"

\* match link(...) { Ok(linked_prog) => postlink_compile, Err(e) => return Err(e) }
OnLink(outcome) == IF outcome = "Ok" THEN "postlink_compile" ELSE "return"

\* (a driver that writes whatever postlink_compile answered)
OnPostlinkAlwaysOutput(outcome) == "to_output"

\* match postlink_compile(...) { Ok(completed_program) => to_output,
\*                               Err(e) => return Err(e) }
OnPostlink(outcome) == IF outcome = "Ok" THEN "to_output" ELSE "return"

\* The units of one file pushed onto compiled_progs.
PushUnits(progs, file, k) == progs \o [j \in 1..k |-> file]

\* let mut output = get_output(compile.output.as_deref()).unwrap();
GetOutput ==
    /\ main_pc = "get_output"
    /\ \E created \in BOOLEAN :
          IF created
          THEN /\ main_pc' = IF compile_only THEN "compile_only" ELSE "compile_loop"
               /\ UNCHANGED main_ret
          ELSE Return(Panicked("get_output"))
    /\ UNCHANGED <<filenames, compile_only, file_idx, compiled_progs, calls, output,
                   printed, pvars, tvars, ttvars, ovars>>

\* if compile.compile_only { let filename = &filenames[0]; ... }
CompileOnly ==
    /\ main_pc = "compile_only"
    /\ IF Len(filenames) = 0
       THEN /\ Return(Panicked("filenames[0]"))
            /\ UNCHANGED <<calls, output, printed>>
       ELSE /\ calls' = Append(calls, Call("compile_from_file", 1,
                                           IF filenames[1].ok THEN "Ok" ELSE "Err"))
            /\ IF filenames[1].ok
               THEN /\ output' = output \o [j \in 1..filenames[1].units |-> "compiled_program"]
                    /\ Return(ReturnOk)
                    /\ UNCHANGED printed
               ELSE /\ printed' = Append(printed, Printed("Compilation error", 1))
                    /\ Return(ReturnErr("compile_from_file", 1))
                    /\ UNCHANGED output
    /\ UNCHANGED <<filenames, compile_only, file_idx, compiled_progs, pvars, tvars, ttvars, ovars>>

\* for filename in &filenames { match compile_from_file(...) { ... } }
CompileFile ==
    /\ main_pc = "compile_loop"
    /\ file_idx <= Len(filenames)
    /\ calls' = Append(calls, Call("compile_from_file", file_idx,
                                   IF filenames[file_idx].ok THEN "Ok" ELSE "Err"))
    /\ IF OnCompile(filenames[file_idx]) = "compile_loop"
       THEN /\ compiled_progs' = PushUnits(compiled_progs, file_idx,
                                           filenames[file_idx].units)
            /\ file_idx' = file_idx + 1
            /\ UNCHANGED <<main_pc, main_ret, printed>>
       ELSE /\ printed' = Append(printed, Printed("Compilation error", file_idx))
            /\ Return(ReturnErr("compile_from_file", file_idx))
            /\ UNCHANGED <<compiled_progs, file_idx>>
    /\ UNCHANGED <<filenames, compile_only, output, pvars, tvars, ttvars, ovars>>

\* match link(&compiled_progs, ...) { ... }
CallLink ==
    /\ main_pc = "compile_loop"
    /\ file_idx > Len(filenames)
    /\ \E outcome \in Outcomes :
          /\ calls' = Append(calls, Call("link", 0, outcome))
          /\ IF outcome = "Panic"
             THEN Return(Panicked("link")) /\ UNCHANGED printed
             ELSE IF OnLink(outcome) = "return"
             THEN /\ printed' = Append(printed, Printed("Linking error", 0))
                  /\ Return(ReturnErr("link", 0))
             ELSE main_pc' = OnLink(outcome) /\ UNCHANGED <<main_ret, printed>>
    /\ UNCHANGED <<filenames, compile_only, file_idx, compiled_progs, output,
                   pvars, tvars, ttvars, ovars>>

\* match postlink_compile(linked_prog, ...) { ... }
CallPostlinkCompile ==
    /\ main_pc = "postlink_compile"
    /\ \E outcome \in Outcomes :
          /\ calls' = Append(calls, Call("postlink_compile", 0, outcome))
          /\ IF outcome = "Panic"
             THEN Return(Panicked("postlink_compile")) /\ UNCHANGED printed
             ELSE IF OnPostlink(outcome) = "return"
             THEN /\ printed' = Append(printed, Printed("Linking error", 0))
                  /\ Return(ReturnErr("postlink_compile", 0))
             ELSE main_pc' = OnPostlink(outcome) /\ UNCHANGED <<main_ret, printed>>
    /\ UNCHANGED <<filenames, compile_only, file_idx, compiled_progs, output,
                   pvars, tvars, ttvars, ovars>>

\* LinkedProgram::to_output as main sees it: what went through the output
\* handle, and whether a writeln!(..).unwrap() panicked.  It returns nothing:
\* a serialization error or an unknown format is text on the same handle.
ToOutputOutcomes ==
    {[written |-> <<"artifact">>, panics |-> FALSE],
     [written |-> <<"message">>, panics |-> FALSE],
     [written |-> <<"partial", "message">>, panics |-> FALSE],
     [written |-> <<"partial">>, panics |-> TRUE],
     [written |-> <<>>, panics |-> TRUE]}

\* completed_program.to_output(&mut *output, compile.format.as_deref());
\* then main returns Ok(()).
CallToOutput ==
    /\ main_pc = "to_output"
    /\ \E o \in ToOutputOutcomes :
          /\ calls' = Append(calls, Call("to_output", 0, IF o.panics THEN "Panic" ELSE "Ok"))
          /\ output' = output \o o.written
          /\ Return(IF o.panics THEN Panicked("to_output") ELSE ReturnOk)
    /\ UNCHANGED <<filenames, compile_only, file_idx, compiled_progs, printed,
                   pvars, tvars, ttvars, ovars>>

MainNext ==
    \/ GetOutput
    \/ CompileOnly
    \/ CompileFile
    \/ CallLink
    \/ CallPostlinkCompile
    \/ CallToOutput

-----------------------------------------------------------------------------
(* LinkedProgram::to_output (src/src/link/mod.rs 77-119).  The output is a  *)
(* std::io::Write: every write on it either succeeds, or returns Err with   *)
(* nothing or only a part of the data written.                              *)

MaxOutLen == 3      \* instructions of the program that is written

\* The format argument: None, or Some(selector).
Selectors == {"pretty", "json", "bincode", "yaml", "JSON", ""}

Formats ==
    {[some |-> FALSE, sel |-> ""]} \cup {[some |-> TRUE, sel |-> x] : x \in Selectors}

\* One piece of data handed to the output: kind is the representation it
\* belongs to ("pretty", "json", "bincode") or "message"; arg is the value
\* formatted into a message; idx the instruction of a pretty line; whole is
\* FALSE when the write failed after a part of it was written.
Item(kind, text, arg, idx) ==
    [kind |-> kind, text |-> text, arg |-> arg, idx |-> idx, whole |-> TRUE]

Partial(item) == [item EXCEPT !.whole = FALSE]

\* What one write on the output can do.
WriteOutcomes == {"ok", "err", "err_partial"}

\* The output after a write of item with outcome w.
Written(out, item, w) ==
    IF w = "ok" THEN Append(out, item)
    ELSE IF w = "err_partial" THEN Append(out, Partial(item))
    ELSE out

\* The writes that returned Err, after a write named call with outcome w.
Failed(failed, call, w) == IF w = "ok" THEN failed ELSE Append(failed, call)

\* (a selector match that falls back to json for what it does not know)
ArmDefaultJson(format) ==
    IF format.some /\ format.sel = "pretty" THEN "pretty"
    ELSE IF format.some /\ format.sel = "bincode" THEN "bincode"
    ELSE "json"

\* match format { Some("pretty") => .., None | Some("json") => ..,
\*                Some("bincode") => .., Some(weird_value) => .. }
Arm(format) ==
    IF format.some /\ format.sel = "pretty" THEN "pretty"
    ELSE IF ~format.some \/ format.sel = "json" THEN "json"
    ELSE IF format.sel = "bincode" THEN "bincode"
    ELSE "invalid"

StaticLine == Item("pretty", "static: ", "", 0)
InsnLine(idx) == Item("pretty", "insn", "", idx)
JsonLine == Item("json", "prog_str", "", 0)
Encoded == Item("bincode", "encoded", "", 0)
JsonSerializationError == Item("message", "json serialization error: ", "", 0)
BincodeWriteError == Item("message", "bincode write error: ", "", 0)
BincodeSerializationError == Item("message", "bincode serialization error: ", "", 0)
InvalidFormat(sel) == Item("message", "invalid format: ", sel, 0)

OutIdle ==
    /\ out_format = [some |-> FALSE, sel |-> ""]
    /\ out_len = 0
    /\ out_pc = "idle"
    /\ out_idx = 0
    /\ out_written = <<>>
    /\ out_failed = <<>>
    /\ out_ret = "none"

OutInit ==
    /\ out_format \in Formats
    /\ out_len \in 0..MaxOutLen
    /\ out_pc = "match"
    /\ out_idx = 0
    /\ out_written = <<>>
    /\ out_failed = <<>>
    /\ out_ret = "none"

\* to_output ends: it returns (), or an unwrap() of a failed write panics.
OutEnd(how) ==
    /\ out_pc' = "done"
    /\ out_ret' = how

\* writeln!(output, ..).unwrap() of item, with outcome w, as the last
\* statement of to_output.
LastWriteln(item, w) ==
    /\ out_written' = Written(out_written, item, w)
    /\ out_failed' = Failed(out_failed, "writeln", w)
    /\ OutEnd(IF w = "ok" THEN "returned" ELSE "panic")

\* Some("pretty") => { writeln!(output, "static: {}", self.static_val).unwrap(); ..
ToOutputPretty ==
    /\ out_pc = "match"
    /\ Arm(out_format) = "pretty"
    /\ \E w \in WriteOutcomes :
          /\ out_written' = Written(out_written, StaticLine, w)
          /\ out_failed' = Failed(out_failed, "writeln", w)
          /\ IF w = "ok"
             THEN out_pc' = "pretty_loop" /\ UNCHANGED out_ret
             ELSE OutEnd("panic")
    /\ UNCHANGED <<out_format, out_len, out_idx, pvars, tvars, ttvars, dvars>>

\* for (idx, insn) in self.code.iter().enumerate() { writeln!(..).unwrap(); }
PrettyLine ==
    /\ out_pc = "pretty_loop"
    /\ IF out_idx < out_len
       THEN \E w \in WriteOutcomes :
               /\ out_written' = Written(out_written, InsnLine(out_idx), w)
               /\ out_failed' = Failed(out_failed, "writeln", w)
               /\ out_idx' = out_idx + 1
               /\ IF w = "ok"
                  THEN UNCHANGED <<out_pc, out_ret>>
                  ELSE OutEnd("panic")
       ELSE /\ OutEnd("returned")
            /\ UNCHANGED <<out_written, out_failed, out_idx>>
    /\ UNCHANGED <<out_format, out_len, pvars, tvars, ttvars, dvars>>

\* None | Some("json") => match serde_json::to_string(self) { .. }
ToOutputJson ==
    /\ out_pc = "match"
    /\ Arm(out_format) = "json"
    /\ \E serialized \in BOOLEAN : \E w \in WriteOutcomes :
          LastWriteln(IF serialized THEN JsonLine ELSE JsonSerializationError, w)
    /\ UNCHANGED <<out_format, out_len, out_idx, pvars, tvars, ttvars, dvars>>

\* Some("bincode") => match bincode::serialize(self) {
\*     Ok(encoded) => if let Err(e) = output.write_all(&encoded) {
\*         writeln!(output, "bincode write error: {:?}", e).unwrap(); }
\*     Err(e) => writeln!(output, "bincode serialization error: {:?}", e).unwrap() }
ToOutputBincode ==
    /\ out_pc = "match"
    /\ Arm(out_format) = "bincode"
    /\ \E serialized \in BOOLEAN : \E w \in WriteOutcomes :
          IF ~serialized
          THEN LastWriteln(BincodeSerializationError, w)
          ELSE \E w1 \in WriteOutcomes :
                  IF w1 = "ok"
                  THEN /\ out_written' = Written(out_written, Encoded, w1)
                       /\ OutEnd("returned")
                       /\ UNCHANGED out_failed
                  ELSE /\ out_written' =
                             Written(Written(out_written, Encoded, w1), BincodeWriteError, w)
                       /\ out_failed' =
                             Failed(Failed(out_failed, "write_all", w1), "writeln", w)
                       /\ OutEnd(IF w = "ok" THEN "returned" ELSE "panic")
    /\ UNCHANGED <<out_format, out_len, out_idx, pvars, tvars, ttvars, dvars>>

\* Some(weird_value) => writeln!(output, "invalid format: {}", weird_value).unwrap()
ToOutputInvalid ==
    /\ out_pc = "match"
    /\ Arm(out_format) = "invalid"
    /\ \E w \in WriteOutcomes : LastWriteln(InvalidFormat(out_format.sel), w)
    /\ UNCHANGED <<out_format, out_len, out_idx, pvars, tvars, ttvars, dvars>>

OutNext ==
    \/ ToOutputPretty
    \/ PrettyLine
    \/ ToOutputJson
    \/ ToOutputBincode
    \/ ToOutputInvalid

-----------------------------------------------------------------------------
(* The specifications.                                                     *)

\* link and postlink_compile on the units and globals of PipeInit.
Init == PipeInit /\ TupleIdle /\ TreeIdle /\ MainIdle /\ OutIdle

Spec == Init /\ [][PipeNext]_vars

\* The tuple normalizer on one wide immediate.
InitTuple == PipeIdle /\ TupleInit /\ TreeIdle /\ MainIdle /\ OutIdle

SpecTuple == InitTuple /\ [][NormalizeImmediate]_vars

\* The round trip of a type tree through SerializableTypeTree.
InitTypeTree == PipeIdle /\ TupleIdle /\ TreeInit /\ MainIdle /\ OutIdle

SpecTypeTree == InitTypeTree /\ [][TreeNext]_vars

\* The compile driver on a list of input files.
InitMain == PipeIdle /\ TupleIdle /\ TreeIdle /\ MainInit /\ OutIdle

SpecMain == InitMain /\ [][MainNext]_vars

\* to_output on a program, a format and an output.
InitOutput == PipeIdle /\ TupleIdle /\ TreeIdle /\ MainIdle /\ OutInit

SpecOutput == InitOutput /\ [][OutNext]_vars

-----------------------------------------------------------------------------
(* Properties of link and postlink_compile.                                *)

Ran(stage) == InSeq(ran, stage)

\* The stage ran and handed its result on to the next one.
Passed(stage) == Ran(stage) /\ ran[Len(ran)] # stage

RECURSIVE SumLenBefore(_, _)
SumLenBefore(progs, i) ==
    IF i <= 1 THEN 0 ELSE SumLenBefore(progs, i - 1) + Len(progs[i - 1].code)

FinalArtifactConcrete ==
    /\ result.kind = "ok" =>
          /\ NonAvm(patched) = {}
          /\ Len(result.prog.code) = Len(patched)
          /\ \A j \in 1..Len(patched) : result.prog.code[j] = AvmInsn(patched[j])
    /\ (Ran("finish") /\ NonAvm(patched) # {}) =>
          /\ result.kind = "err"
          /\ result.err = "Postlink error"
          /\ \E j \in NonAvm(patched) :
                result.op = patched[j].name /\ result.loc = patched[j].loc
          /\ result.prog = NoProgram

\* The conversion met a virtual opcode and returned the error.
FinalArtifactWitness ==
    /\ Ran("finish")
    /\ result.kind = "err"
    /\ result.err = "Postlink error"
    /\ \E j \in 1..Len(patched) : patched[j].kind = "virtual"

\* C3: with the same mode flag given to link and to postlink_compile, the
\* slot patched (the second instruction in test mode, the third otherwise)
\* is, when it is patched, the prologue instruction link built with the
\* uninitialized globals tuple: the first three instructions are still the
\* prologue, and after the patch the jump table value stands where the last
\* none of that tuple stood.
PatchSlot == IF post_mode THEN 2 ELSE 3

PatchHitsPrologueSlot ==
    (Passed("hardcode") /\ link_mode = post_mode) =>
        /\ Len(code_5) >= 3
        /\ \A j \in 1..3 :
              /\ code_5[j].kind = program.code[j].kind
              /\ code_5[j].name = program.code[j].name
              /\ code_5[j].loc = NoLoc
              /\ code_5[j].imm = FixValue(program.code[j].imm)
        /\ program.code[PatchSlot].imm = make_uninitialized_tuple(Len(globals))
        /\ LET n == Len(globals)
               after == patched[PatchSlot].imm
           IN  IF n = 0 THEN after = jump_table_value
               ELSE /\ IsTuple(after)
                    /\ Len(after.v) = n
                    /\ after.v[n] = jump_table_value
                    /\ \A g \in 1..(n - 1) : after.v[g] = NoneV

\* A patch in each mode, with globals and a jump table that is not empty.
PatchWitnessTest ==
    /\ Passed("hardcode") /\ link_mode /\ post_mode
    /\ Len(globals) = 2 /\ Len(jump_table_final) > 0

PatchWitness ==
    /\ Passed("hardcode") /\ ~link_mode /\ ~post_mode
    /\ Len(globals) = 2 /\ Len(jump_table_final) > 0

\* The label identities referenced in code before a definition of them.
ForwardReferenced(code) ==
    {code[i].imm.v : i \in {i \in 1..Len(code) :
        IsLabelRef(code[i]) /\ DefsBefore(code, i - 1, code[i].imm.v) = {}}}

AllReferenced(code) == {code[i].imm.v : i \in {i \in 1..Len(code) : IsLabelRef(code[i])}}

\* C4: the table built by fix_nonforward_labels holds each label identity
\* referenced before its definition once, and nothing else; after
\* strip_labels the finalized table has one entry per such identity (so none
\* for a program with backward references only).
JumpTableComplete ==
    /\ Passed("fix_nonforward_labels") =>
          /\ {jump_table[j] : j \in 1..Len(jump_table)} = ForwardReferenced(program.code)
          /\ Len(jump_table) = Cardinality(ForwardReferenced(program.code))
    /\ Passed("strip_labels") =>
          /\ Len(jump_table_final) = Cardinality(ForwardReferenced(program.code))
          /\ \A j \in 1..Len(jump_table_final) : jump_table_final[j].k = "codept"
          /\ (ForwardReferenced(program.code) = {} => jump_table_final = <<>>)

\* strip_labels finalized a table of one entry for a program that refers to
\* that identity twice before its definition and once after it.
JumpTableWitness ==
    /\ Passed("strip_labels")
    /\ Len(jump_table_final) = 1
    /\ Cardinality({i \in 1..Len(program.code) : IsLabelRef(program.code[i])}) = 3
    /\ IsLabelRef(program.code[Len(program.code)])

\* strip_labels finalized a table of two identities.
JumpTableTwoWitness ==
    /\ Passed("strip_labels")
    /\ Len(jump_table_final) = 2

\* strip_labels finalized an empty table for a program that has references.
JumpTableBackwardWitness ==
    /\ Passed("strip_labels")
    /\ jump_table_final = <<>>
    /\ AllReferenced(program.code) # {}

\* The label identities referenced in code and defined nowhere in it.
UndefinedLabels(code) == {l \in AllReferenced(code) : ~Defined(code, l)}

\* C5: when the merged program refers to a label defined nowhere,
\* strip_labels fails, postlink_compile ends with that UndefinedLabel error
\* and never with a program; when strip_labels succeeds every referenced
\* label is defined and its output holds no label reference and no marker.
UndefinedLabelRejected ==
    /\ UndefinedLabels(program.code) # {} =>
          /\ result.kind # "ok"
          /\ ~Passed("strip_labels")
          /\ Ran("strip_labels") =>
                /\ result.kind = "err"
                /\ result.err = "UndefinedLabel"
                /\ code_5 = <<>>
    /\ Passed("strip_labels") =>
          /\ UndefinedLabels(program.code) = {}
          /\ \A j \in 1..Len(code_5) : ~IsLabelRef(code_5[j]) /\ ~IsLabelMarker(code_5[j])

\* strip_labels failed on an undefined label.
UndefinedLabelWitness ==
    /\ Ran("strip_labels")
    /\ UndefinedLabels(program.code) # {}
    /\ result.err = "UndefinedLabel"

\* strip_labels removed markers and references.
StrippedWitness ==
    /\ Passed("strip_labels")
    /\ AllReferenced(program.code) # {}
    /\ Len(code_5) < Len(code_4)

\* C9: link and postlink_compile always end by returning a value; no stage
\* panics.
NoStagePanics == result.kind # "panic"

StageOrder ==
    <<"link", "fix_nonforward_labels", "fix_tuple_size", "peephole", "strip_labels",
      "hardcode", "finish">>

EmbedderFrame ==
    /\ Passed("hardcode") =>
          /\ Len(patched) = Len(code_5)
          /\ \A j \in 1..Len(code_5) : j # PatchSlot => patched[j] = code_5[j]
          /\ [patched[PatchSlot] EXCEPT !.imm = code_5[PatchSlot].imm] = code_5[PatchSlot]
          /\ patched[PatchSlot].imm = replace_last_none(code_5[PatchSlot].imm, jump_table_value)
    /\ Passed("link") => program = link(progs_in, globals, link_mode)
    /\ Passed("fix_nonforward_labels") =>
          /\ code_2 = postlink_fix_nonforward_labels(program).code
          /\ jump_table = postlink_fix_nonforward_labels(program).table
    /\ Passed("fix_tuple_size") => code_3 = fix_tuple_size(code_2, Len(program.globals))
    /\ Passed("peephole") => code_4 = peephole(code_3)
    /\ Passed("strip_labels") =>
          /\ code_5 = strip_labels(code_4, jump_table).code
          /\ jump_table_final = strip_labels(code_4, jump_table).table

\* The patch was applied to a program with unit code after the prologue,
\* whose prologue carries the codegen_print attribute, and changed it.
EmbedderFrameWitness ==
    /\ Passed("hardcode")
    /\ Len(code_5) > 3
    /\ patched # code_5
    /\ code_5[PatchSlot].print

-----------------------------------------------------------------------------
(* Properties of the tuple normalizer.                                     *)

\* C6: for a value whose arity exceeds TUPLE_SIZE, the normalized value
\* flattens to the same ordered sequence of elements as the value itself,
\* and no tuple node of it, at any depth, is wider than TUPLE_SIZE.
TupleNormalizationPreservesContent ==
    (tuple_pc = "done" /\ Len(tuple_in[1].imm.v) > TUPLE_SIZE) =>
        /\ Len(tuple_out) = 1
        /\ tuple_out[1].name = tuple_in[1].name
        /\ Flatten(tuple_out[1].imm) = Flatten(tuple_in[1].imm)
        /\ MaxArity(tuple_out[1].imm) <= TUPLE_SIZE

\* A tuple wider than TUPLE_SIZE * TUPLE_SIZE, holding a tuple wider than
\* TUPLE_SIZE, was normalized into a tree three levels deep.
TupleNormalizationWitness ==
    /\ tuple_pc = "done"
    /\ Len(tuple_in[1].imm.v) > TUPLE_SIZE * TUPLE_SIZE
    /\ IsTuple(tuple_in[1].imm.v[1])
    /\ Len(tuple_in[1].imm.v[1].v) > TUPLE_SIZE
    /\ tuple_out[1].imm # tuple_in[1].imm
    /\ Len(Flatten(tuple_out[1].imm)) > TUPLE_SIZE * TUPLE_SIZE

-----------------------------------------------------------------------------
(* Properties of SerializableTypeTree.                                     *)

\* C7: from_type_tree followed by into_type_tree gives the type tree back:
\* it does not panic and no entry is lost, merged or given another key.
TypeTreeRoundTripExact ==
    /\ tree_pc # "panic"
    /\ tree_pc = "done" => type_tree_back = type_tree

\* The round trip of a tree whose keys all have a non-empty path of
\* separator-free segments, which is where it is exact.
PlainKey(key) ==
    /\ Len(key.path) > 0
    /\ \A j \in 1..Len(key.path) : Split(key.path[j]) = <<key.path[j]>>

TypeTreeRoundTripPlain ==
    (tree_pc = "done" /\ \A key \in DOMAIN type_tree : PlainKey(key)) =>
        type_tree_back = type_tree

\* A tree of two entries with plain keys went through the round trip.
TypeTreeRoundTripWitness ==
    /\ tree_pc = "done"
    /\ Cardinality(DOMAIN type_tree) = 2
    /\ \A key \in DOMAIN type_tree : PlainKey(key)

-----------------------------------------------------------------------------
(* Properties of the compile driver.                                       *)

CalledWith(fn, arg, outcome) == InSeq(calls, Call(fn, arg, outcome))

Called(fn) == \E j \in 1..Len(calls) : calls[j].fn = fn

\* C8: on the compile-and-link path to_output is called only after every
\* input file compiled and link and postlink_compile returned Ok, in that
\* order; when one of them returns an error nothing is written and main
\* returns that error; when one of them panics nothing is written.
ArtifactOnlyAfterSuccess ==
    ~compile_only =>
        /\ Called("to_output") =>
              /\ \A f \in 1..Len(filenames) :
                    filenames[f].ok /\ calls[f] = Call("compile_from_file", f, "Ok")
              /\ calls[Len(filenames) + 1] = Call("link", 0, "Ok")
              /\ calls[Len(filenames) + 2] = Call("postlink_compile", 0, "Ok")
              /\ calls[Len(filenames) + 3].fn = "to_output"
              /\ Len(calls) = Len(filenames) + 3
        /\ output # <<>> => Called("to_output")
        /\ \A j \in 1..Len(calls) :
              /\ calls[j].outcome = "Err" =>
                    /\ output = <<>>
                    /\ ~Called("to_output")
                    /\ j = Len(calls)
                    /\ main_pc = "done"
                    /\ main_ret = ReturnErr(calls[j].fn, calls[j].arg)
              /\ (calls[j].outcome = "Panic" /\ calls[j].fn # "to_output") =>
                    /\ output = <<>>
                    /\ ~Called("to_output")
                    /\ main_ret.kind = "panic"

\* Two files compiled, link succeeded, postlink_compile returned an error,
\* and main returned it.
DriverFailureWitness ==
    /\ ~compile_only
    /\ Len(filenames) >= 2
    /\ CalledWith("link", 0, "Ok")
    /\ CalledWith("postlink_compile", 0, "Err")
    /\ main_ret = ReturnErr("postlink_compile", 0)

\* The second of three files failed to compile and main returned its error.
DriverCompileErrorWitness ==
    /\ ~compile_only
    /\ Len(filenames) = 3
    /\ main_ret = ReturnErr("compile_from_file", 2)

\* Everything succeeded and the artifact was written.
ArtifactWrittenWitness ==
    /\ ~compile_only
    /\ Len(filenames) >= 2
    /\ output = <<"artifact">>
    /\ main_ret = ReturnOk

\* C14: when compile_from_file fails on file k, main prints the error and
\* returns it at once: the calls made are the compilations of the files
\* 1..k and nothing else, no unit of a later file was compiled, and link,
\* postlink_compile and to_output were not called.
FrontEndAbort ==
    \A k \in 1..Len(calls) :
        (calls[k].fn = "compile_from_file" /\ calls[k].outcome = "Err") =>
            /\ Len(calls) = k
            /\ \A i \in 1..k : calls[i].fn = "compile_from_file" /\ calls[i].arg = i
            /\ ~Called("link") /\ ~Called("postlink_compile") /\ ~Called("to_output")
            /\ \A u \in 1..Len(compiled_progs) : compiled_progs[u] < k
            /\ printed = <<Printed("Compilation error", k)>>
            /\ main_pc = "done"
            /\ main_ret = ReturnErr("compile_from_file", k)
            /\ output = <<>>

\* The second of three files failed, the third would have compiled; main
\* returned the error after two calls, with the units of the first file only.
FrontEndAbortWitness ==
    /\ ~compile_only
    /\ Len(filenames) = 3
    /\ filenames[1].ok /\ filenames[1].units = MaxUnitsPerFile
    /\ ~filenames[2].ok
    /\ filenames[3].ok
    /\ Len(calls) = 2
    /\ Len(compiled_progs) = MaxUnitsPerFile
    /\ main_ret = ReturnErr("compile_from_file", 2)

-----------------------------------------------------------------------------
(* Properties of LinkedProgram::to_output.                                 *)

\* C11: with the bincode format, when the write of the encoded program
\* fails, to_output does not panic and the I/O error reaches the caller (at
\* the least as the "bincode write error" message, the only channel a
\* function returning () has).
BincodeWriteErrorSurfaced ==
    (Arm(out_format) = "bincode" /\ InSeq(out_failed, "write_all") /\ out_pc = "done") =>
        /\ out_ret # "panic"
        /\ InSeq(out_written, BincodeWriteError)

\* write_all failed, the message was written, and to_output returned ().
BincodeWriteErrorReported ==
    /\ Arm(out_format) = "bincode"
    /\ out_failed = <<"write_all">>
    /\ out_ret = "returned"
    /\ out_written = <<BincodeWriteError>>

\* The representation the selector names: json when it is absent.
Chosen == IF out_format.some THEN out_format.sel ELSE "json"

\* What to_output may hand to the output for a selector.
AllowedItems ==
    CASE Chosen = "pretty" -> {StaticLine} \cup {InsnLine(i) : i \in 0..(out_len - 1)}
      [] Chosen = "json" -> {JsonLine, JsonSerializationError}
      [] Chosen = "bincode" -> {Encoded, BincodeWriteError, BincodeSerializationError}
      [] OTHER -> {InvalidFormat(out_format.sel)}

\* What a to_output whose writes all succeeded has written.
WholeOutputs ==
    CASE Chosen = "pretty" -> {<<StaticLine>> \o [i \in 1..out_len |-> InsnLine(i - 1)]}
      [] Chosen = "json" -> {<<JsonLine>>, <<JsonSerializationError>>}
      [] Chosen = "bincode" -> {<<Encoded>>, <<BincodeSerializationError>>}
      [] OTHER -> {<<InvalidFormat(out_format.sel)>>}

\* C12: everything to_output writes belongs to the one representation the
\* selector names (pretty, json -- also for an absent selector -- or
\* bincode, or that representation's error message); for any other selector
\* it is only the message "invalid format: <selector>"; and when no write
\* fails the output is exactly that one representation.
FormatSelectorExact ==
    /\ \A j \in 1..Len(out_written) :
          out_written[j] \in AllowedItems \/ out_written[j] \in {Partial(it) : it \in AllowedItems}
    /\ (out_ret = "returned" /\ out_failed = <<>>) => out_written \in WholeOutputs

\* An unknown selector was answered with the message and nothing else.
InvalidFormatWitness ==
    /\ out_ret = "returned"
    /\ out_format = [some |-> TRUE, sel |-> "yaml"]
    /\ out_written = <<InvalidFormat("yaml")>>

\* An absent selector gave json; the pretty format gave a line per instruction.
AbsentFormatWitness ==
    /\ out_ret = "returned"
    /\ ~out_format.some
    /\ out_written = <<JsonLine>>

PrettyFormatWitness ==
    /\ out_ret = "returned"
    /\ out_format = [some |-> TRUE, sel |-> "pretty"]
    /\ out_len = MaxOutLen
    /\ Len(out_written) = MaxOutLen + 1

====
